---- MODULE Spec2Model ----
(***************************************************************************)
(* SharingManager of tv/lib/sharing.py: the controller that starts and     *)
(* stops the DAAP server thread and the mDNS registration in response to   *)
(* configuration changes.                                                  *)
(*                                                                         *)
(* The owner context (the event loop) runs one handler at a time; pc is    *)
(* the source line it is about to execute ("L233" is sharing.py line 233)  *)
(* and "idle" means no handler is running.  The listener thread and the    *)
(* configuration writers run concurrently with it.                         *)
(*                                                                         *)
(* SharingManagerBackend of the same file: the item catalog (items,        *)
(* daapitems) and the playlist index (daap_playlists, playlist_item_map)   *)
(* that the listener thread reads while the owner context applies the      *)
(* host's notifications.  b_pc is the line a catalog handler executes      *)
(* next.                                                                   *)
(***************************************************************************)
EXTENDS Integers, Sequences, FiniteSets, TLC

\* ------------------------------------------------------------------ bounds
MaxPending == 2     \* config-change notifications queued in the event loop
MaxServers == 2     \* distinct DAAP server objects alive at once
MaxRefs    == 2     \* distinct mDNS registration handles alive at once
MaxItems   == 2     \* distinct item identifiers the host library uses
MaxBatch   == 2     \* records carried by one catalog notification
MaxPlaylists == 2   \* distinct playlist identifiers the host library uses
MaxPath    == 3     \* characters of a file path
MaxCalls   == 2     \* daap_item_fixup calls on one record
MaxRequests == 3    \* HTTP-auth requests registered
MaxMessages == 3    \* bus messages handled for one Tester

ServerIds == 1..MaxServers
RefIds    == 1..MaxRefs

\* An attribute that does not exist on the object (never set, or del'ed).
NoAttr == 0

VARIABLES
    cfg_share,       \* app.config value of prefs.SHARE_MEDIA
    cfg_disc,        \* app.config value of prefs.SHARE_DISCOVERABLE
    pending,         \* on_config_changed calls queued by eventloop.add_idle
    pc,              \* line the owner context executes next, or "idle"
    sharing,         \* self.sharing
    discoverable,    \* self.discoverable
    mdns_ref,        \* self.mdns_ref, NoAttr when the attribute is absent
    server,          \* self.server, NoAttr when the attribute is absent
    thread,          \* self.thread (named by the server it runs), or NoAttr
    l_sharing,       \* local 'sharing' of twiddle_sharing
    l_discoverable,  \* local 'discoverable' of twiddle_sharing
    rv,              \* value returned by enable_sharing
    ret,             \* where disable_discover returns to: "L241" or "end"
    running,         \* servers whose listener thread is alive in runloop
    halting,         \* servers that were told to shut down
    installed,       \* mDNS registrations currently advertised
    calls,           \* libdaap/threading calls made by the current handler
    outcome          \* how the last finished handler ended

managerVars == <<cfg_share, cfg_disc, pending, pc, sharing, discoverable, mdns_ref,
                 server, thread, l_sharing, l_discoverable, rv, ret, running,
                 halting, installed, calls, outcome>>


VARIABLES
    items,           \* SharingManagerBackend.items: id -> neutral record
    daapitems,       \* SharingManagerBackend.daapitems: id -> DAAP attributes
    b_pc,            \* line the catalog handler executes next, or "idle"
    b_handler,       \* the catalog handler that is running or ran last
    m_removed,       \* message.removed still to be looped over (line 88)
    m_added,         \* message.added
    m_changed,       \* message.changed
    b_list,          \* 'items' argument of make_item_dict still to loop over
    b_ret,           \* where make_item_dict returns to: "L92" or "end"
    b_outcome,       \* how the last finished catalog handler ended
    snap,            \* the catalog before the running or last failed handler
    ref,             \* reference map replayed from the same notifications
    l_result,        \* result of the listener's last get_filepath
    daap_playlists,      \* SharingManagerBackend.daap_playlists
    playlist_item_map,   \* SharingManagerBackend.playlist_item_map
    db_playlists,        \* the host's saved playlists: id -> title, members
    p_outcome,           \* how the last playlist handler ended
    p_msg                \* the last playlist notification: handler, argument

catalogVars == <<items, daapitems, b_pc, b_handler, m_removed, m_added,
                 m_changed, b_list, b_ret, b_outcome, snap, ref, l_result>>

playlistVars == <<daap_playlists, playlist_item_map, db_playlists, p_outcome,
                  p_msg>>

backendVars == <<catalogVars, playlistVars>>

VARIABLES
    g_arg,           \* playlist_id of the listener's last get_items call
    g_ret            \* what that call returned, or the exception it raised

requestVars == <<g_arg, g_ret>>

VARIABLES
    t_x,             \* the ItemInfo x of one pass of make_item_dict's loop
    t_entry,         \* the dict built for it at lines 200-202
    t_outs,          \* what each daap_item_fixup call on that dict returned
    t_pc             \* "off", or the line the pass is at: "L190", "L203"

translateVars == <<t_x, t_entry, t_outs, t_pc>>

VARIABLES
    requestIdGenerator,       \* httpauth: the next value of itertools.count()
    waitingHTTPAuthCallbacks, \* httpauth: request id -> callback
    registered,      \* callbacks handed to find_http_auth/askForHTTPAuth
    issued,          \* the request ids obtained so far, in order
    overwritten,     \* a registration replaced a pending callback
    sent,            \* commands sent to the daemon: kind, id
    invoked,         \* callback invocations so far: callback, header
    h_last           \* the last httpauth call: op, id, header, raised

relayVars == <<requestIdGenerator, waitingHTTPAuthCallbacks, registered,
               issued, overwritten, sent, invoked, h_last>>

VARIABLES
    k_pc,            \* Tester: where can_play_file's thread is
    k_main,          \* can_play_file was called on the main-loop thread
    success,         \* Tester.success
    done,            \* Tester.done is set
    watch,           \* the bus 'message' handler is connected
    playbin,         \* state the playbin was last set to
    handled,         \* messages on_bus_message has handled, in order
    woke,            \* 'handled' as it was when done.wait(5) returned
    k_ret            \* what can_play_file returned

testerVars == <<k_pc, k_main, success, done, watch, playbin, handled, woke,
                k_ret>>

auxVars == <<requestVars, translateVars, relayVars, testerVars>>

vars == <<managerVars, backendVars, auxVars>>

cfgVars   == <<cfg_share, cfg_disc, pending>>
selfVars  == <<sharing, discoverable, mdns_ref, server, thread>>
localVars == <<l_sharing, l_discoverable, rv, ret>>
worldVars == <<running, halting, installed>>

Called(c) == \E i \in DOMAIN calls : calls[i] = c

\* Smallest identifier of S, the object a constructor hands out next.
Fresh(S) == CHOOSE x \in S : \A y \in S : x <= y

\* The handler returns (or an exception leaves it) to the event loop.
Finish(how) == pc' = "idle" /\ outcome' = how

\* ------------------------------------------------------------ __init__
\* State at line 223 of __init__, about to make the first twiddle_sharing
\* call: both flags False, no server, thread or mDNS handle attribute.
SharingManager_init ==
    /\ cfg_share \in BOOLEAN
    /\ cfg_disc \in BOOLEAN
    /\ pending = 0
    /\ pc = "L230"
    /\ sharing = FALSE
    /\ discoverable = FALSE
    /\ mdns_ref = NoAttr
    /\ server = NoAttr
    /\ thread = NoAttr
    /\ l_sharing = FALSE
    /\ l_discoverable = FALSE
    /\ rv = FALSE
    /\ ret = "end"
    /\ running = {}
    /\ halting = {}
    /\ installed = {}
    /\ calls = << >>
    /\ outcome = "none"

\* A dict with no keys.
EmptyDict == [k \in {} |-> 0]

\* The class attributes of lines 72-77 before any notification arrived.
CatalogEmpty ==
    /\ items = EmptyDict
    /\ daapitems = EmptyDict
    /\ b_pc = "idle"
    /\ b_handler = "none"
    /\ m_removed = << >>
    /\ m_added = << >>
    /\ m_changed = << >>
    /\ b_list = << >>
    /\ b_ret = "end"
    /\ b_outcome = "none"
    /\ snap = [items |-> EmptyDict, daapitems |-> EmptyDict]
    /\ ref = EmptyDict
    /\ l_result = "none"

\* start_tracking (line 221) found no saved playlist.
PlaylistsEmpty ==
    /\ daap_playlists = EmptyDict
    /\ playlist_item_map = EmptyDict
    /\ db_playlists = EmptyDict
    /\ p_outcome = "none"
    /\ p_msg = [handler |-> "none", arg |-> << >>]

\* No client asked the listener for the items of a playlist yet.
NoRequest ==
    /\ g_arg = 0
    /\ g_ret = [raised |-> "not called", value |-> {}]

\* make_item_dict is not being followed item by item.
TranslateOff ==
    /\ t_x = << >>
    /\ t_entry = << >>
    /\ t_outs = << >>
    /\ t_pc = "off"

\* httpauth.py as imported: counter at 0 (line 34), empty table (line 35).
RelayIdle ==
    /\ requestIdGenerator = 0
    /\ waitingHTTPAuthCallbacks = EmptyDict
    /\ registered = 0
    /\ issued = << >>
    /\ overwritten = FALSE
    /\ sent = << >>
    /\ invoked = << >>
    /\ h_last = [op |-> "none", id |-> 0, header |-> "none", raised |-> "none"]

\* No Tester exists.
TesterOff ==
    /\ k_pc = "off"
    /\ k_main = FALSE
    /\ success = FALSE
    /\ done = FALSE
    /\ watch = FALSE
    /\ playbin = "none"
    /\ handled = << >>
    /\ woke = << >>
    /\ k_ret = "none"

AuxIdle == NoRequest /\ TranslateOff /\ RelayIdle /\ TesterOff

Init == SharingManager_init /\ CatalogEmpty /\ PlaylistsEmpty /\ AuxIdle

\* ----------------------------------------------------- configuration feed
\* A setting is written; the ConfigWatcher queues on_config_changed on the
\* event loop through eventloop.add_idle.
ConfigChanged ==
    /\ pending < MaxPending
    /\ \E key \in {"share", "discoverable"}, value \in BOOLEAN :
          /\ cfg_share' = IF key = "share" THEN value ELSE cfg_share
          /\ cfg_disc' = IF key = "discoverable" THEN value ELSE cfg_disc
    /\ pending' = pending + 1
    /\ UNCHANGED <<pc, selfVars, localVars, worldVars, calls, outcome>>
    /\ UNCHANGED <<backendVars, auxVars>>

\* The event loop runs the queued callback, which calls twiddle_sharing.
on_config_changed ==
    /\ pc = "idle"
    /\ pending > 0
    /\ pending' = pending - 1
    /\ pc' = "L230"
    /\ UNCHANGED <<cfg_share, cfg_disc, selfVars, localVars, worldVars,
                   calls, outcome>>
    /\ UNCHANGED <<backendVars, auxVars>>

\* ------------------------------------------------------- twiddle_sharing
twiddle_sharing_230 ==
    /\ pc = "L230"
    /\ l_sharing' = cfg_share
    /\ calls' = << >>
    /\ pc' = "L231"
    /\ UNCHANGED <<cfgVars, selfVars, l_discoverable, rv, ret, worldVars,
                   outcome>>
    /\ UNCHANGED <<backendVars, auxVars>>

twiddle_sharing_231 ==
    /\ pc = "L231"
    /\ l_discoverable' = cfg_disc
    /\ pc' = "L233"
    /\ UNCHANGED <<cfgVars, selfVars, l_sharing, rv, ret, worldVars, calls,
                   outcome>>
    /\ UNCHANGED <<backendVars, auxVars>>

\* if sharing != self.sharing
SharingDiffers_always(want, cur) == TRUE

\* A comparison that looks at the requested value only.
SharingDiffers_wanted(want, cur) == want

SharingDiffers(want, cur) == want # cur

twiddle_sharing_233 ==
    /\ pc = "L233"
    /\ pc' = IF SharingDiffers(l_sharing, sharing)
                THEN (IF l_sharing THEN "L271" ELSE "L240")
                ELSE "L246"
    /\ UNCHANGED <<cfgVars, selfVars, localVars, worldVars, calls, outcome>>
    /\ UNCHANGED <<backendVars, auxVars>>

\* if not self.enable_sharing(): return
twiddle_sharing_237 ==
    /\ pc = "L237"
    /\ IF ~rv THEN Finish("bind_failed")
              ELSE pc' = "L246" /\ UNCHANGED outcome
    /\ UNCHANGED <<cfgVars, selfVars, localVars, worldVars, calls>>
    /\ UNCHANGED <<backendVars, auxVars>>

\* A twiddle_sharing that forgets to withdraw discovery before stopping.
twiddle_sharing_240_skip ==
    /\ pc = "L240"
    /\ pc' = "L241"
    /\ UNCHANGED <<cfgVars, selfVars, localVars, worldVars, calls, outcome>>
    /\ UNCHANGED <<backendVars, auxVars>>

\* self.disable_discover(), called unconditionally
twiddle_sharing_240 ==
    /\ pc = "L240"
    /\ pc' = "L261"
    /\ ret' = "L241"
    /\ UNCHANGED <<cfgVars, selfVars, l_sharing, l_discoverable, rv,
                   worldVars, calls, outcome>>
    /\ UNCHANGED <<backendVars, auxVars>>

\* self.disable_sharing()
twiddle_sharing_241 ==
    /\ pc = "L241"
    /\ pc' = "L283"
    /\ UNCHANGED <<cfgVars, selfVars, localVars, worldVars, calls, outcome>>
    /\ UNCHANGED <<backendVars, auxVars>>

\* A twiddle_sharing without the short-circuit of lines 246-247.
twiddle_sharing_246_fallthrough ==
    /\ pc = "L246"
    /\ pc' = "L249"
    /\ UNCHANGED <<cfgVars, selfVars, localVars, worldVars, calls, outcome>>
    /\ UNCHANGED <<backendVars, auxVars>>

\* if not self.sharing: return
twiddle_sharing_246 ==
    /\ pc = "L246"
    /\ IF ~sharing THEN Finish("ok")
                   ELSE pc' = "L249" /\ UNCHANGED outcome
    /\ UNCHANGED <<cfgVars, selfVars, localVars, worldVars, calls>>
    /\ UNCHANGED <<backendVars, auxVars>>

\* if discoverable != self.discoverable
DiscoverDiffers_always(want, cur) == TRUE

DiscoverDiffers(want, cur) == want # cur

twiddle_sharing_249 ==
    /\ pc = "L249"
    /\ IF DiscoverDiffers(l_discoverable, discoverable)
          THEN /\ pc' = IF l_discoverable THEN "L257" ELSE "L261"
               /\ ret' = "end"
               /\ UNCHANGED outcome
          ELSE /\ Finish("ok")
               /\ UNCHANGED ret
    /\ UNCHANGED <<cfgVars, selfVars, l_sharing, l_discoverable, rv,
                   worldVars, calls>>
    /\ UNCHANGED <<backendVars, auxVars>>

twiddle_sharing ==
    \/ twiddle_sharing_230
    \/ twiddle_sharing_231
    \/ twiddle_sharing_233
    \/ twiddle_sharing_237
    \/ twiddle_sharing_240
    \/ twiddle_sharing_241
    \/ twiddle_sharing_246
    \/ twiddle_sharing_249

\* ------------------------------------------------------- enable_discover
\* A registration that sets self.discoverable before install_mdns returned
\* (lines 257 and 258 swapped).
enable_discover_257_eager ==
    /\ pc = "L257"
    /\ calls' = Append(calls, "install_mdns")
    /\ discoverable' = TRUE
    /\ \E ok \in BOOLEAN :
          IF ok /\ RefIds \ installed # {}
             THEN /\ mdns_ref' = Fresh(RefIds \ installed)
                  /\ installed' = installed \cup {mdns_ref'}
                  /\ pc' = "L258"
                  /\ UNCHANGED outcome
             ELSE /\ Finish("discovery_failed")
                  /\ UNCHANGED <<mdns_ref, installed>>
    /\ UNCHANGED <<cfgVars, sharing, server, thread, localVars, running,
                   halting>>
    /\ UNCHANGED <<backendVars, auxVars>>

\* self.mdns_ref = libdaap.install_mdns(name): the registration succeeds
\* and the handle is stored, or it raises and the exception leaves
\* twiddle_sharing (nothing on the way catches it).
enable_discover_257 ==
    /\ pc = "L257"
    /\ calls' = Append(calls, "install_mdns")
    /\ \E ok \in BOOLEAN :
          IF ok /\ RefIds \ installed # {}
             THEN /\ mdns_ref' = Fresh(RefIds \ installed)
                  /\ installed' = installed \cup {mdns_ref'}
                  /\ pc' = "L258"
                  /\ UNCHANGED outcome
             ELSE /\ Finish("discovery_failed")
                  /\ UNCHANGED <<mdns_ref, installed>>
    /\ UNCHANGED <<cfgVars, sharing, discoverable, server, thread,
                   localVars, running, halting>>
    /\ UNCHANGED <<backendVars, auxVars>>

enable_discover_258 ==
    /\ pc = "L258"
    /\ discoverable' = TRUE
    /\ Finish("ok")
    /\ UNCHANGED <<cfgVars, sharing, mdns_ref, server, thread, localVars,
                   worldVars, calls>>
    /\ UNCHANGED <<backendVars, auxVars>>

enable_discover ==
    \/ enable_discover_257
    \/ enable_discover_258

\* ------------------------------------------------------ disable_discover
disable_discover_261 ==
    /\ pc = "L261"
    /\ discoverable' = FALSE
    /\ pc' = "L262"
    /\ UNCHANGED <<cfgVars, sharing, mdns_ref, server, thread, localVars,
                   worldVars, calls, outcome>>
    /\ UNCHANGED <<backendVars, auxVars>>

\* A withdrawal that never reaches the mDNS service.
disable_discover_262_noop ==
    /\ pc = "L262"
    /\ IF mdns_ref = NoAttr
          THEN /\ Finish("attribute_error")
               /\ UNCHANGED calls
          ELSE /\ calls' = Append(calls, "uninstall_mdns")
               /\ pc' = "L263"
               /\ UNCHANGED outcome
    /\ UNCHANGED <<cfgVars, selfVars, localVars, worldVars>>
    /\ UNCHANGED <<backendVars, auxVars>>

\* libdaap.uninstall_mdns(self.mdns_ref): reading self.mdns_ref raises
\* AttributeError when the attribute does not exist.
disable_discover_262 ==
    /\ pc = "L262"
    /\ IF mdns_ref = NoAttr
          THEN /\ Finish("attribute_error")
               /\ UNCHANGED <<installed, calls>>
          ELSE /\ installed' = installed \ {mdns_ref}
               /\ calls' = Append(calls, "uninstall_mdns")
               /\ pc' = "L263"
               /\ UNCHANGED outcome
    /\ UNCHANGED <<cfgVars, selfVars, localVars, running, halting>>
    /\ UNCHANGED <<backendVars, auxVars>>

\* del self.mdns_ref, then return to the caller
disable_discover_263 ==
    /\ pc = "L263"
    /\ mdns_ref' = NoAttr
    /\ IF ret = "L241" THEN pc' = "L241" /\ UNCHANGED outcome
                       ELSE Finish("ok")
    /\ UNCHANGED <<cfgVars, sharing, discoverable, server, thread,
                   localVars, worldVars, calls>>
    /\ UNCHANGED <<backendVars, auxVars>>

disable_discover ==
    \/ disable_discover_261
    \/ disable_discover_262
    \/ disable_discover_263

\* -------------------------------------------------------- enable_sharing
\* self.server = libdaap.make_daap_server(...): binds the listening
\* socket, or raises OSError (line 276) when the bind fails.
enable_sharing_271 ==
    /\ pc = "L271"
    /\ ServerIds \ (running \cup {server}) # {}
    /\ calls' = Append(calls, "make_daap_server")
    /\ \E ok \in BOOLEAN :
          IF ok THEN /\ server' = Fresh(ServerIds \ (running \cup {server}))
                     /\ pc' = "L272"
                ELSE /\ pc' = "L278"
                     /\ UNCHANGED server
    /\ UNCHANGED <<cfgVars, sharing, discoverable, mdns_ref, thread,
                   localVars, worldVars, outcome>>
    /\ UNCHANGED <<backendVars, auxVars>>

\* self.thread = threading.Thread(target=self.server_thread, ...)
enable_sharing_272 ==
    /\ pc = "L272"
    /\ thread' = server
    /\ pc' = "L274"
    /\ UNCHANGED <<cfgVars, sharing, discoverable, mdns_ref, server,
                   localVars, worldVars, calls, outcome>>
    /\ UNCHANGED <<backendVars, auxVars>>

\* self.thread.start()
enable_sharing_274 ==
    /\ pc = "L274"
    /\ running' = running \cup {thread}
    /\ calls' = Append(calls, "start")
    /\ pc' = "L275"
    /\ UNCHANGED <<cfgVars, selfVars, localVars, halting, installed,
                   outcome>>
    /\ UNCHANGED <<backendVars, auxVars>>

enable_sharing_275 ==
    /\ pc = "L275"
    /\ sharing' = TRUE
    /\ pc' = "L280"
    /\ UNCHANGED <<cfgVars, discoverable, mdns_ref, server, thread,
                   localVars, worldVars, calls, outcome>>
    /\ UNCHANGED <<backendVars, auxVars>>

\* An except clause that leaves the session marked as shared.
enable_sharing_278_shared ==
    /\ pc = "L278"
    /\ sharing' = TRUE
    /\ pc' = "L280"
    /\ UNCHANGED <<cfgVars, discoverable, mdns_ref, server, thread,
                   localVars, worldVars, calls, outcome>>
    /\ UNCHANGED <<backendVars, auxVars>>

\* except OSError: self.sharing = False
enable_sharing_278 ==
    /\ pc = "L278"
    /\ sharing' = FALSE
    /\ pc' = "L280"
    /\ UNCHANGED <<cfgVars, discoverable, mdns_ref, server, thread,
                   localVars, worldVars, calls, outcome>>
    /\ UNCHANGED <<backendVars, auxVars>>

\* return self.sharing
enable_sharing_280 ==
    /\ pc = "L280"
    /\ rv' = sharing
    /\ pc' = "L237"
    /\ UNCHANGED <<cfgVars, selfVars, l_sharing, l_discoverable, ret,
                   worldVars, calls, outcome>>
    /\ UNCHANGED <<backendVars, auxVars>>

enable_sharing ==
    \/ enable_sharing_271
    \/ enable_sharing_272
    \/ enable_sharing_274
    \/ enable_sharing_275
    \/ enable_sharing_278
    \/ enable_sharing_280

\* ------------------------------------------------------- disable_sharing
disable_sharing_283 ==
    /\ pc = "L283"
    /\ sharing' = FALSE
    /\ pc' = "L284"
    /\ UNCHANGED <<cfgVars, discoverable, mdns_ref, server, thread,
                   localVars, worldVars, calls, outcome>>
    /\ UNCHANGED <<backendVars, auxVars>>

\* self.server.shutdown()
disable_sharing_284 ==
    /\ pc = "L284"
    /\ IF server = NoAttr
          THEN /\ Finish("attribute_error")
               /\ UNCHANGED <<halting, calls>>
          ELSE /\ halting' = halting \cup {server}
               /\ calls' = Append(calls, "shutdown")
               /\ pc' = "L285"
               /\ UNCHANGED outcome
    /\ UNCHANGED <<cfgVars, selfVars, localVars, running, installed>>
    /\ UNCHANGED <<backendVars, auxVars>>

\* A join that returns without waiting for the thread.
disable_sharing_285_nowait ==
    /\ pc = "L285"
    /\ calls' = Append(calls, "join")
    /\ pc' = "L286"
    /\ UNCHANGED <<cfgVars, selfVars, localVars, worldVars, outcome>>
    /\ UNCHANGED <<backendVars, auxVars>>

\* self.thread.join(): blocks until the thread is no longer alive
disable_sharing_285 ==
    /\ pc = "L285"
    /\ thread \notin running
    /\ calls' = Append(calls, "join")
    /\ pc' = "L286"
    /\ UNCHANGED <<cfgVars, selfVars, localVars, worldVars, outcome>>
    /\ UNCHANGED <<backendVars, auxVars>>

\* del self.thread
disable_sharing_286 ==
    /\ pc = "L286"
    /\ thread' = NoAttr
    /\ pc' = "L287"
    /\ UNCHANGED <<cfgVars, sharing, discoverable, mdns_ref, server,
                   localVars, worldVars, calls, outcome>>
    /\ UNCHANGED <<backendVars, auxVars>>

\* del self.server, then return to line 246 of twiddle_sharing
disable_sharing_287 ==
    /\ pc = "L287"
    /\ server' = NoAttr
    /\ halting' = halting \ {server}
    /\ pc' = "L246"
    /\ UNCHANGED <<cfgVars, sharing, discoverable, mdns_ref, thread,
                   localVars, running, installed, calls, outcome>>
    /\ UNCHANGED <<backendVars, auxVars>>

disable_sharing ==
    \/ disable_sharing_283
    \/ disable_sharing_284
    \/ disable_sharing_285
    \/ disable_sharing_286
    \/ disable_sharing_287

\* --------------------------------------------------------- server_thread
\* libdaap.runloop(self.server) returns once the server was shut down, and
\* the thread ends.
server_thread ==
    /\ \E s \in running \cap halting : running' = running \ {s}
    /\ UNCHANGED <<cfgVars, pc, selfVars, localVars, halting, installed,
                   calls, outcome>>
    /\ UNCHANGED <<backendVars, auxVars>>

\* libdaap.runloop raises: server_thread has no try/except, so the thread
\* ends and nothing else changes.
server_thread_raises ==
    /\ \E s \in running \ halting : running' = running \ {s}
    /\ UNCHANGED <<cfgVars, pc, selfVars, localVars, halting, installed,
                   calls, outcome>>
    /\ UNCHANGED <<backendVars, auxVars>>

\* ----------------------------------------------------------------- specs
Next ==
    \/ ConfigChanged
    \/ on_config_changed
    \/ twiddle_sharing
    \/ enable_discover
    \/ disable_discover
    \/ enable_sharing
    \/ disable_sharing
    \/ server_thread

Spec == Init /\ [][Next]_vars

\* The same controller with a listener thread that may die of an
\* unexpected exception at any time.
NextCrash ==
    \/ Next
    \/ server_thread_raises

SpecCrash == Init /\ [][NextCrash]_vars

TypeOK ==
    /\ cfg_share \in BOOLEAN /\ cfg_disc \in BOOLEAN
    /\ pending \in 0..MaxPending
    /\ sharing \in BOOLEAN /\ discoverable \in BOOLEAN
    /\ mdns_ref \in RefIds \cup {NoAttr}
    /\ server \in ServerIds \cup {NoAttr}
    /\ thread \in ServerIds \cup {NoAttr}
    /\ running \subseteq ServerIds /\ halting \subseteq ServerIds
    /\ installed \subseteq RefIds
    /\ outcome \in {"none", "ok", "bind_failed", "discovery_failed",
                    "attribute_error"}
\* ---------------------------------------------------------------- claims
TearingDown == pc \in {"L240", "L241", "L283", "L284", "L285", "L286", "L287"}
                  \/ (pc \in {"L261", "L262", "L263"} /\ ret = "L241")

\* C1: a discovery record is advertised only while a listener is live:
\* discoverable = True implies sharing = True with a running server thread,
\* and an mDNS registration exists only while the session's server and a
\* live listener thread exist.
C1_DiscoveryOnlyWhileListening ==
    /\ discoverable => (sharing /\ thread # NoAttr /\ thread \in running)
    /\ installed # {} => (server # NoAttr /\ thread \in running)

C1_Witness ==
    discoverable /\ installed # {} /\ pc = "idle" /\ thread \in running

\* C2: at most one share session exists at a time: enable_sharing never
\* runs while a listener thread of an earlier enable is alive, so there are
\* never two live listener threads.
C2_SingleShareSession ==
    /\ Cardinality(running) <= 1
    /\ pc \in {"L271", "L272", "L274"} => running = {}
    /\ running \subseteq {thread}

C2_Witness ==
    pc = "L275" /\ running = {thread} /\ outcome = "ok"

\* C3: at most one discovery registration is active at a time: install_mdns
\* is never called while an earlier registration is still installed, and
\* every installed registration is the one self.mdns_ref holds (no handle
\* is overwritten and leaked).
C3_SingleRegistration ==
    /\ Cardinality(installed) <= 1
    /\ pc = "L257" => (installed = {} /\ mdns_ref = NoAttr)
    /\ installed \subseteq {mdns_ref}

C3_Witness ==
    pc = "L258" /\ installed = {mdns_ref} /\ outcome = "ok"

\* C4: once twiddle_sharing has processed a notification without a bind or
\* discovery failure, the session is Running exactly when share-enabled (as
\* the handler read it) is true, and while Running it is discoverable
\* exactly when the discoverable flag is true.
C4_ReconciliationConverges ==
    (pc = "idle" /\ outcome \notin {"bind_failed", "discovery_failed"})
        => /\ sharing = l_sharing
           /\ sharing => (discoverable = l_discoverable)

\* C5: the discovery record is withdrawn strictly before the listener is
\* shut down and joined: a handler that called shutdown called
\* uninstall_mdns earlier, and whenever the listener has been told to stop
\* or has stopped no discovery record is advertised.
C5_WithdrawBeforeStop ==
    /\ \A i \in DOMAIN calls :
          calls[i] \in {"shutdown", "join"}
             => \E j \in 1..(i - 1) : calls[j] = "uninstall_mdns"
    /\ (Called("shutdown") \/ halting # {}) => (installed = {} /\ ~discoverable)
    /\ installed # {} => (thread \in running /\ thread \notin halting)

C5_Witness ==
    pc = "L286" /\ calls = <<"uninstall_mdns", "shutdown", "join">>
        /\ running = {}

\* C6: if the bind fails during enable_sharing the session is Stopped,
\* enable_sharing returned False, no listener thread runs, no discovery
\* registration was attempted, and the handler ends without queueing a
\* retry.
BindFailed ==
    Called("make_daap_server") /\ ~Called("start") /\ pc \notin {"L272", "L274"}

C6_StateAfterBindFailure ==
    BindFailed
        => /\ ~sharing
           /\ pc \in {"L278", "L280", "L237", "idle", "L230"}
           /\ pc \in {"L237", "idle", "L230"} => ~rv
           /\ pc \in {"idle", "L230"} => outcome = "bind_failed"
           /\ running = {} /\ thread = NoAttr /\ server = NoAttr
           /\ ~discoverable /\ installed = {} /\ mdns_ref = NoAttr
           /\ ~Called("install_mdns")

C6_BindFailure ==
    /\ []C6_StateAfterBindFailure
    /\ [][(pc = "L237" /\ pc' # pc /\ ~rv)
            => (pc' = "idle" /\ pending' = pending)]_vars

C6_Witness ==
    pc = "idle" /\ outcome = "bind_failed" /\ l_discoverable
        /\ calls = <<"make_daap_server">>

\* C7: disable_sharing is synchronous: once its join has returned, and so
\* in every state after disable_sharing returned, no listener thread of
\* the session is alive.
C7_JoinIsSynchronous ==
    /\ pc \in {"L286", "L287"} => (thread \notin running /\ running = {})
    /\ Called("join") => running = {}

C7_Witness ==
    pc = "L246" /\ Called("join") /\ thread = NoAttr /\ server = NoAttr

\* C8: if the listener thread dies of an unexpected exception the session
\* is forced to Stopped: the controller is never Running (sharing = True)
\* with a dead listener thread.
C8_NoRunningWithDeadListener ==
    sharing => thread \in running

C10_DiscoverOnlyWhileRunning ==
    /\ ~sharing => (~discoverable /\ pc \notin {"L257", "L258"}
                    /\ ~Called("install_mdns"))
    /\ TearingDown => (~Called("install_mdns") /\ pc \notin {"L257", "L258"})
    /\ (TearingDown /\ pc \notin {"L240", "L261"}) => ~discoverable
    /\ Called("install_mdns") => (sharing /\ ~Called("shutdown"))

C10_Witness ==
    pc = "idle" /\ l_discoverable /\ ~sharing /\ ~discoverable
        /\ outcome = "bind_failed"
\* C11: a request to enable sharing that arrives while the session is
\* already Running is a no-op: the handler makes no server, starts no
\* thread, leaves server, thread, listener and the sharing flag as they
\* were, and does not end in a bind failure or an attribute error.
SecondEnable ==
    /\ sharing /\ l_sharing /\ ~Called("make_daap_server")
    /\ pc \in {"L233", "L246", "L249", "L257", "L258", "L261", "L262", "L263"}

C11_SecondEnableIsNoOp ==
    [][SecondEnable
         => /\ server' = server /\ thread' = thread /\ running' = running
            /\ sharing' = sharing /\ halting' = halting
            /\ pc' \notin {"L271", "L272", "L274", "L275", "L278", "L280"}
            /\ \A i \in DOMAIN calls' :
                  calls'[i] \notin {"make_daap_server", "start",
                                    "shutdown", "join"}
            /\ outcome' \in {outcome, "ok", "discovery_failed"}]_vars

C11_Witness ==
    /\ pc = "idle" /\ outcome = "ok" /\ calls = << >>
    /\ sharing /\ l_sharing /\ running = {thread} /\ server = thread

\* C12: calling disable_discover when no discovery record is advertised
\* (never advertised, or already withdrawn) does not raise: no handler ends
\* in the AttributeError of line 262.
C12_WithdrawIdempotent ==
    ~(pc = "idle" /\ outcome = "attribute_error" /\ mdns_ref = NoAttr
        /\ ~Called("uninstall_mdns"))
\* ======================================================================
\* SharingManagerBackend: the item catalog
\* ======================================================================
ItemIds == 1..MaxItems

\* dict operations
Put(d, k, v) == [x \in (DOMAIN d) \cup {k} |-> IF x = k THEN v ELSE d[x]]

Del(d, k) == [x \in (DOMAIN d) \ {k} |-> d[x]]

\* A Python 2 text value: a unicode object (u = TRUE, s = code points) or
\* a str (u = FALSE, s = bytes).
Uni(cs) == [u |-> TRUE, s |-> cs]

Str(bs) == [u |-> FALSE, s |-> bs]

\* unicode.encode('utf-8') of a sequence of code points below 0x10000
RECURSIVE utf8(_)
utf8(cs) ==
    IF cs = << >> THEN << >>
    ELSE LET c == Head(cs)
             b == IF c < 128 THEN <<c>>
                  ELSE IF c < 2048 THEN <<192 + (c \div 64), 128 + (c % 64)>>
                  ELSE <<224 + (c \div 4096), 128 + ((c \div 64) % 64),
                         128 + (c % 64)>>
         IN  b \o utf8(Tail(cs))

\* lines 52-55: a unicode value is encoded, anything else passes through
encoded(v) == IF v.u THEN Str(utf8(v.s)) ELSE v

\* os.path.splitext of posixpath: sep '/', extsep '.'
sep == 47

extsep == 46

\* str.rfind, 1-based; 0 when the character does not occur
rfind(cs, c) ==
    LET hits == {i \in 1..Len(cs) : cs[i] = c}
    IN  IF hits = {} THEN 0 ELSE CHOOSE i \in hits : \A j \in hits : j <= i

\* genericpath._splitext: the extension starts at the last dot of the
\* final path segment, leading dots of that segment not counting.
splitext(cs) ==
    LET sepIndex == rfind(cs, sep)
        dotIndex == rfind(cs, extsep)
    IN  IF /\ dotIndex > sepIndex
           /\ \E i \in (sepIndex + 1)..(dotIndex - 1) : cs[i] # extsep
           THEN <<SubSeq(cs, 1, dotIndex - 1), SubSeq(cs, dotIndex, Len(cs))>>
           ELSE <<cs, << >> >>

\* lines 195-199: e, without its leading dot when it is not empty
enclosure_format(path) ==
    LET e == splitext(path.s)[2]
    IN  [u |-> path.u, s |-> IF e # << >> THEN Tail(e) ELSE e]

\* libdaap media kinds
DAAP_MEDIAKIND_AUDIO == 1

DAAP_MEDIAKIND_VIDEO == 2

\* the translation with the default media kind on the other side
daap_item_fixup_video_default(item_id, entry) ==
    << <<"minm", encoded(entry.name)>>,
       <<"asfm", encoded(entry.enclosure_format)>>,
       <<"assz", entry.size>>,
       <<"astm", entry.duration>>,
       <<"miid", item_id>>,
       <<"aeMK", IF entry.file_type = "audio" THEN DAAP_MEDIAKIND_AUDIO
                                              ELSE DAAP_MEDIAKIND_VIDEO>> >>

daap_item_fixup(item_id, entry) ==
    << <<"minm", encoded(entry.name)>>,
       <<"asfm", encoded(entry.enclosure_format)>>,
       <<"assz", entry.size>>,
       <<"astm", entry.duration>>,
       <<"miid", item_id>>,
       <<"aeMK", IF entry.file_type = "video" THEN DAAP_MEDIAKIND_VIDEO
                                              ELSE DAAP_MEDIAKIND_AUDIO>> >>

\* The dict built at lines 190-202 from an ItemInfo x.
Entry(x) ==
    [name |-> x.name, size |-> x.size, duration |-> x.duration,
     file_type |-> x.file_type, path |-> x.video_path,
     enclosure_format |-> enclosure_format(x.video_path)]

\* What the host sends about an item: a video "m.v" with a unicode name
\* (U+00E9) and an audio file "m" without extension.
Contents ==
    { [name |-> Uni(<<233>>), size |-> 10, duration |-> 20,
       file_type |-> "video", video_path |-> Str(<<109, 46, 118>>)],
      [name |-> Str(<<97>>), size |-> 30, duration |-> 40,
       file_type |-> "audio", video_path |-> Str(<<109>>)] }

ItemInfos ==
    { [id |-> i, name |-> c.name, size |-> c.size, duration |-> c.duration,
       file_type |-> c.file_type, video_path |-> c.video_path] :
         i \in ItemIds, c \in Contents }

SeqsUpTo(S, n) == UNION { [1..k -> S] : k \in 0..n }

\* The catalog handler returns, or an exception leaves it.
FinishCatalog(how) ==
    /\ b_pc' = "idle"
    /\ b_outcome' = how
    /\ m_removed' = << >>
    /\ m_added' = << >>
    /\ m_changed' = << >>
    /\ b_list' = << >>
    /\ b_ret' = "end"
    /\ snap' = IF how = "ok" THEN [items |-> items, daapitems |-> daapitems]
                            ELSE snap

\* Reference map: insert on added, replace on changed, delete on removed.
RECURSIVE RefPut(_, _)
RefPut(d, xs) ==
    IF Len(xs) = 0 THEN d
    ELSE RefPut(Put(d, Head(xs).id, Entry(Head(xs))), Tail(xs))

RECURSIVE RefDel(_, _)
RefDel(d, xs) ==
    IF Len(xs) = 0 THEN d ELSE RefDel(Del(d, Head(xs).id), Tail(xs))

\* handle_item_list(message): make_item_dict(message.items)
handle_item_list ==
    /\ b_pc = "idle"
    /\ \E xs \in SeqsUpTo(ItemInfos, MaxBatch) :
          /\ b_list' = xs
          /\ ref' = RefPut(ref, xs)
    /\ b_handler' = "handle_item_list"
    /\ b_ret' = "end"
    /\ b_pc' = "L189"
    /\ snap' = [items |-> items, daapitems |-> daapitems]
    /\ UNCHANGED <<items, daapitems, m_removed, m_added, m_changed,
                   b_outcome, l_result>>
    /\ UNCHANGED <<managerVars, playlistVars, auxVars>>

\* handle_items_changed(message) is entered
handle_items_changed_86 ==
    /\ b_pc = "idle"
    /\ \E rs \in SeqsUpTo({[id |-> i] : i \in ItemIds}, MaxBatch),
          as \in SeqsUpTo(ItemInfos, MaxBatch),
          cs \in SeqsUpTo(ItemInfos, MaxBatch) :
          /\ Len(rs) + Len(as) + Len(cs) <= MaxBatch
          /\ m_removed' = rs
          /\ m_added' = as
          /\ m_changed' = cs
          /\ ref' = RefPut(RefPut(RefDel(ref, rs), as), cs)
    /\ b_handler' = "handle_items_changed"
    /\ b_pc' = "L88"
    /\ snap' = [items |-> items, daapitems |-> daapitems]
    /\ UNCHANGED <<items, daapitems, b_list, b_ret, b_outcome, l_result>>
    /\ UNCHANGED <<managerVars, playlistVars, auxVars>>

\* for x in message.removed
handle_items_changed_88 ==
    /\ b_pc = "L88"
    /\ b_pc' = IF Len(m_removed) = 0 THEN "L91" ELSE "L89"
    /\ UNCHANGED <<items, daapitems, b_handler, m_removed, m_added,
                   m_changed, b_list, b_ret, b_outcome, snap, ref, l_result>>
    /\ UNCHANGED <<managerVars, playlistVars, auxVars>>

\* del self.items[x.id]: KeyError when the key is absent
handle_items_changed_89 ==
    /\ b_pc = "L89"
    /\ IF Head(m_removed).id \in DOMAIN items
          THEN /\ items' = Del(items, Head(m_removed).id)
               /\ b_pc' = "L90"
               /\ UNCHANGED <<m_removed, m_added, m_changed, b_list, b_ret,
                              b_outcome, snap>>
          ELSE /\ FinishCatalog("KeyError")
               /\ UNCHANGED items
    /\ UNCHANGED <<daapitems, b_handler, ref, l_result>>
    /\ UNCHANGED <<managerVars, playlistVars, auxVars>>

\* del self.daapitems[x.id]
handle_items_changed_90 ==
    /\ b_pc = "L90"
    /\ IF Head(m_removed).id \in DOMAIN daapitems
          THEN /\ daapitems' = Del(daapitems, Head(m_removed).id)
               /\ m_removed' = Tail(m_removed)
               /\ b_pc' = "L88"
               /\ UNCHANGED <<m_added, m_changed, b_list, b_ret, b_outcome, snap>>
          ELSE /\ FinishCatalog("KeyError")
               /\ UNCHANGED daapitems
    /\ UNCHANGED <<items, b_handler, ref, l_result>>
    /\ UNCHANGED <<managerVars, playlistVars, auxVars>>

\* self.make_item_dict(message.added)
handle_items_changed_91 ==
    /\ b_pc = "L91"
    /\ b_list' = m_added
    /\ b_ret' = "L92"
    /\ b_pc' = "L189"
    /\ UNCHANGED <<items, daapitems, b_handler, m_removed, m_added,
                   m_changed, b_outcome, snap, ref, l_result>>
    /\ UNCHANGED <<managerVars, playlistVars, auxVars>>

\* self.make_item_dict(message.changed)
handle_items_changed_92 ==
    /\ b_pc = "L92"
    /\ b_list' = m_changed
    /\ b_ret' = "end"
    /\ b_pc' = "L189"
    /\ UNCHANGED <<items, daapitems, b_handler, m_removed, m_added,
                   m_changed, b_outcome, snap, ref, l_result>>
    /\ UNCHANGED <<managerVars, playlistVars, auxVars>>

handle_items_changed ==
    \/ handle_items_changed_86
    \/ handle_items_changed_88
    \/ handle_items_changed_89
    \/ handle_items_changed_90
    \/ handle_items_changed_91
    \/ handle_items_changed_92

\* for x in items: the loop of make_item_dict, and its return
make_item_dict_189 ==
    /\ b_pc = "L189"
    /\ IF Len(b_list) # 0
          THEN /\ b_pc' = "L200"
               /\ UNCHANGED <<m_removed, m_added, m_changed, b_list, b_ret,
                              b_outcome, snap>>
          ELSE IF b_ret = "L92"
                  THEN /\ b_pc' = "L92"
                       /\ UNCHANGED <<m_removed, m_added, m_changed, b_list,
                                      b_ret, b_outcome, snap>>
                  ELSE FinishCatalog("ok")
    /\ UNCHANGED <<items, daapitems, b_handler, ref, l_result>>
    /\ UNCHANGED <<managerVars, playlistVars, auxVars>>

\* lines 190-202: self.items[x.id] = dict(...)
make_item_dict_200 ==
    /\ b_pc = "L200"
    /\ items' = Put(items, Head(b_list).id, Entry(Head(b_list)))
    /\ b_pc' = "L203"
    /\ UNCHANGED <<daapitems, b_handler, m_removed, m_added, m_changed,
                   b_list, b_ret, b_outcome, snap, ref, l_result>>
    /\ UNCHANGED <<managerVars, playlistVars, auxVars>>

\* A translation cache that is filled once per identifier and never
\* refreshed.
make_item_dict_203_once ==
    /\ b_pc = "L203"
    /\ daapitems' = IF Head(b_list).id \in DOMAIN daapitems
                       THEN daapitems
                       ELSE Put(daapitems, Head(b_list).id,
                                daap_item_fixup(Head(b_list).id,
                                                items[Head(b_list).id]))
    /\ b_list' = Tail(b_list)
    /\ b_pc' = "L189"
    /\ UNCHANGED <<items, b_handler, m_removed, m_added, m_changed, b_ret,
                   b_outcome, snap, ref, l_result>>
    /\ UNCHANGED <<managerVars, playlistVars, auxVars>>

\* self.daapitems[x.id] = daap_item_fixup(x.id, self.items[x.id])
make_item_dict_203 ==
    /\ b_pc = "L203"
    /\ daapitems' = Put(daapitems, Head(b_list).id,
                        daap_item_fixup(Head(b_list).id,
                                        items[Head(b_list).id]))
    /\ b_list' = Tail(b_list)
    /\ b_pc' = "L189"
    /\ UNCHANGED <<items, b_handler, m_removed, m_added, m_changed, b_ret,
                   b_outcome, snap, ref, l_result>>
    /\ UNCHANGED <<managerVars, playlistVars, auxVars>>

make_item_dict ==
    \/ make_item_dict_189
    \/ make_item_dict_200
    \/ make_item_dict_203

\* The listener thread serves a request: it enumerates an identifier of
\* get_items() (the daapitems dict itself, line 174) and calls
\* get_filepath for it (line 156).  No lock is taken on either side.
listener_request ==
    /\ thread \in running
    /\ \E id \in DOMAIN daapitems :
          l_result' = IF id \notin DOMAIN items THEN "KeyError"
                      ELSE IF daapitems[id] # daap_item_fixup(id, items[id])
                              THEN "stale"
                              ELSE "ok"
    /\ UNCHANGED <<items, daapitems, b_pc, b_handler, m_removed, m_added,
                   m_changed, b_list, b_ret, b_outcome, snap, ref>>
    /\ UNCHANGED <<managerVars, playlistVars, auxVars>>

\* The session is Running and idle (share-enabled handled, not
\* discoverable).
ManagerRunning ==
    /\ cfg_share = TRUE
    /\ cfg_disc = FALSE
    /\ pending = 0
    /\ pc = "idle"
    /\ sharing = TRUE
    /\ discoverable = FALSE
    /\ mdns_ref = NoAttr
    /\ server = 1
    /\ thread = 1
    /\ l_sharing = TRUE
    /\ l_discoverable = FALSE
    /\ rv = TRUE
    /\ ret = "end"
    /\ running = {1}
    /\ halting = {}
    /\ installed = {}
    /\ calls = <<"make_daap_server", "start">>
    /\ outcome = "ok"

\* The catalog has not received a notification yet.
InitCatalog == ManagerRunning /\ CatalogEmpty /\ PlaylistsEmpty /\ AuxIdle

NextCatalog ==
    \/ handle_item_list
    \/ handle_items_changed
    \/ make_item_dict
    \/ listener_request

SpecCatalog == InitCatalog /\ [][NextCatalog]_vars
\* ---------------------------------------------------------------- claims
\* The catalog handler is between two elements, or not running.
BetweenElements == b_pc \in {"idle", "L88", "L91", "L92", "L189"}

\* C13: after every completed catalog notification (and between any two
\* elements of one) items and daapitems have the same identifiers, and
\* every daapitems[id] is daap_item_fixup(id, items[id]) of the record now
\* stored: no stale translation survives an update or a removal.
C13_TranslationsAgree ==
    BetweenElements
        => /\ DOMAIN items = DOMAIN daapitems
           /\ \A id \in DOMAIN items :
                 daapitems[id] = daap_item_fixup(id, items[id])

C13_Witness ==
    /\ b_pc = "L189" /\ Len(b_list) = 0 /\ b_ret = "end"
    /\ b_handler = "handle_items_changed"
    /\ \E id \in DOMAIN items \cap DOMAIN snap.items :
          /\ items[id] # snap.items[id]
          /\ daapitems[id] # snap.daapitems[id]
    /\ \E id \in DOMAIN snap.items : id \notin DOMAIN daapitems

\* C14: whenever the listener thread enumerates an identifier through
\* get_items, get_filepath for it succeeds at that moment and the
\* translation matches the stored record, under every interleaving with
\* the owner context's catalog handlers.
C14_ListenerReadsConsistent ==
    l_result \notin {"KeyError", "stale"}

\* C15: after any sequence of catalog notifications the catalog equals the
\* reference map obtained by replaying the same notifications in order
\* (insert on added, replace on changed, delete on removed).
C15_CatalogEqualsReplay ==
    b_pc = "idle" => items = ref

\* C16: a removal naming an identifier that is not in the catalog does not
\* raise.
C16_RemovalIdempotent ==
    b_outcome # "KeyError"

\* C17: an element of message.added whose identifier is already in the
\* catalog makes the notification fail with DuplicateItem and does not
\* overwrite the stored record.
C17_DuplicateAddFails ==
    [][(/\ b_pc = "L200" /\ b_pc' # b_pc
        /\ b_handler = "handle_items_changed" /\ b_ret = "L92"
        /\ Head(b_list).id \in DOMAIN items)
          => (items' = items /\ b_outcome' = "DuplicateItem")]_vars

\* C18: an element of message.changed whose identifier is not in the
\* catalog makes the notification fail with UnknownItem and creates no
\* entry.
C18_UnknownChangeFails ==
    [][(/\ b_pc = "L200" /\ b_pc' # b_pc
        /\ b_handler = "handle_items_changed" /\ b_ret = "end"
        /\ Head(b_list).id \notin DOMAIN items)
          => (items' = items /\ b_outcome' = "UnknownItem")]_vars

\* C19: a catalog notification that fails leaves the catalog exactly as it
\* was before the call, with items and daapitems in agreement.
C19_FailedNotificationIsAtomic ==
    (b_pc = "idle" /\ b_outcome = "KeyError")
        => /\ items = snap.items
           /\ daapitems = snap.daapitems
           /\ DOMAIN items = DOMAIN daapitems
\* ======================================================================
\* SharingManagerBackend: the playlist index
\* ======================================================================
PlaylistIds == 1..MaxPlaylists

\* What the host stores about a playlist: a title and the item ids of its
\* PlaylistItemMap view.
PlaylistRows ==
    [title : {Uni(<<233>>), Str(<<112>>)}, members : {<< >>, <<1>>}]

\* The playlist info object a notification carries for row r of playlist p.
PlaylistInfo(p, r) == [id |-> p, title |-> r.title]

\* the attributes with an item count that is not the placeholder
daap_playlist_counted(x) ==
    << <<"minm", encoded(x.title)>>, <<"miid", x.id>>, <<"mper", x.id>>,
       <<"mpco", 0>>, <<"mimc", 1>> >>

\* lines 96-106: the attributes stored for one playlist
daap_playlist(x) ==
    << <<"minm", encoded(x.title)>>, <<"miid", x.id>>, <<"mper", x.id>>,
       <<"mpco", 0>>, <<"mimc", 0>> >>

RECURSIVE make_daap_playlists(_, _)
make_daap_playlists(d, xs) ==
    IF Len(xs) = 0 THEN d
    ELSE make_daap_playlists(Put(d, Head(xs).id, daap_playlist(Head(xs))),
                             Tail(xs))

\* for x in xs: del self.daap_playlists[x.id]; stops at the first KeyError
RECURSIVE del_daap_playlists(_, _)
del_daap_playlists(d, xs) ==
    IF Len(xs) = 0 THEN [d |-> d, raised |-> FALSE]
    ELSE IF Head(xs).id \notin DOMAIN d THEN [d |-> d, raised |-> TRUE]
    ELSE del_daap_playlists(Del(d, Head(xs).id), Tail(xs))

\* playlist.SavedPlaylist.make_view(): the saved playlists, by identifier
RECURSIVE make_view(_, _)
make_view(db, ps) ==
    IF ps = {} THEN << >>
    ELSE LET p == CHOOSE q \in ps : \A r \in ps : q <= r
         IN  <<PlaylistInfo(p, db[p])>> \o make_view(db, ps \ {p})

\* Lists of at most MaxBatch distinct playlist identifiers taken from S.
IdLists(S) ==
    { xs \in SeqsUpTo(S, MaxBatch) :
        \A i, j \in DOMAIN xs : i # j => xs[i] # xs[j] }

\* populate_playlists, called by start_tracking before the signals are
\* connected: every saved playlist is translated and its members listed.
populate_playlists(db) ==
    /\ daap_playlists = make_daap_playlists(EmptyDict, make_view(db, DOMAIN db))
    /\ playlist_item_map = [p \in DOMAIN db |-> db[p].members]

InitPlaylists ==
    /\ ManagerRunning
    /\ CatalogEmpty
    /\ db_playlists \in UNION { [S -> PlaylistRows] : S \in SUBSET PlaylistIds }
    /\ populate_playlists(db_playlists)
    /\ p_outcome = "none"
    /\ p_msg = [handler |-> "none", arg |-> << >>]
    /\ AuxIdle

\* The host saves new playlists and emits 'playlists-added'.
handle_playlist_added ==
    /\ \E ps \in IdLists(PlaylistIds \ DOMAIN db_playlists) :
       \E rows \in [DOMAIN ps -> PlaylistRows] :
          /\ Len(ps) > 0
          /\ db_playlists' = [p \in DOMAIN db_playlists \cup {ps[i] : i \in DOMAIN ps}
                                |-> IF p \in DOMAIN db_playlists
                                       THEN db_playlists[p]
                                       ELSE rows[CHOOSE i \in DOMAIN ps : ps[i] = p]]
          /\ daap_playlists' =
                make_daap_playlists(daap_playlists,
                    [i \in DOMAIN ps |-> PlaylistInfo(ps[i], rows[i])])
          /\ p_msg' = [handler |-> "handle_playlist_added",
                       arg |-> [i \in DOMAIN ps |-> PlaylistInfo(ps[i], rows[i])]]
    /\ p_outcome' = "ok"
    /\ UNCHANGED playlist_item_map
    /\ UNCHANGED <<managerVars, catalogVars, auxVars>>

\* The host changes saved playlists (title or members) and emits
\* 'playlists-changed'.
handle_playlist_changed ==
    /\ \E ps \in IdLists(DOMAIN db_playlists) :
       \E rows \in [DOMAIN ps -> PlaylistRows] :
          LET changed == [i \in DOMAIN ps |-> PlaylistInfo(ps[i], rows[i])]
              deleted == del_daap_playlists(daap_playlists, changed)
          IN  /\ Len(ps) > 0
              /\ p_msg' = [handler |-> "handle_playlist_changed",
                           arg |-> changed]
              /\ db_playlists' = [p \in DOMAIN db_playlists
                                    |-> IF \E i \in DOMAIN ps : ps[i] = p
                                           THEN rows[CHOOSE i \in DOMAIN ps : ps[i] = p]
                                           ELSE db_playlists[p]]
              /\ IF deleted.raised
                    THEN /\ daap_playlists' = deleted.d
                         /\ p_outcome' = "KeyError"
                    ELSE /\ daap_playlists' =
                               make_daap_playlists(deleted.d, changed)
                         /\ p_outcome' = "ok"
    /\ UNCHANGED playlist_item_map
    /\ UNCHANGED <<managerVars, catalogVars, auxVars>>

\* The host deletes saved playlists and emits 'playlists-removed'.
handle_playlist_removed ==
    /\ \E ps \in IdLists(DOMAIN db_playlists) :
          LET removed == [i \in DOMAIN ps |-> [id |-> ps[i]]]
              deleted == del_daap_playlists(daap_playlists, removed)
          IN  /\ Len(ps) > 0
              /\ p_msg' = [handler |-> "handle_playlist_removed",
                           arg |-> removed]
              /\ db_playlists' = [p \in DOMAIN db_playlists \ {ps[i] : i \in DOMAIN ps}
                                    |-> db_playlists[p]]
              /\ daap_playlists' = deleted.d
              /\ p_outcome' = IF deleted.raised THEN "KeyError" ELSE "ok"
    /\ UNCHANGED playlist_item_map
    /\ UNCHANGED <<managerVars, catalogVars, auxVars>>

NextPlaylists ==
    \/ handle_playlist_added
    \/ handle_playlist_changed
    \/ handle_playlist_removed

SpecPlaylists == InitPlaylists /\ [][NextPlaylists]_vars

\* C20: after any sequence of playlist notifications following
\* start_tracking, the playlists that have a member list in
\* playlist_item_map are the playlists in daap_playlists, and each member
\* list is the playlist's current membership.
C20_PlaylistIndexFollows ==
    /\ DOMAIN playlist_item_map = DOMAIN daap_playlists
    /\ \A p \in DOMAIN playlist_item_map :
          p \in DOMAIN db_playlists
             /\ playlist_item_map[p] = db_playlists[p].members

\* C21: a 'playlists-changed' notification that completes stores, for each
\* playlist it names, exactly the translation of the new record (title as
\* UTF-8 bytes, id, persistent id, parent container 0, item count 0), and
\* leaves the entry of every playlist it does not name as it was.
C21_ChangedReinserts ==
    [][(p_msg'.handler = "handle_playlist_changed" /\ p_outcome' = "ok")
         => /\ DOMAIN daap_playlists' = DOMAIN daap_playlists
            /\ \A i \in DOMAIN p_msg'.arg :
                  LET x == p_msg'.arg[i]
                  IN  daap_playlists'[x.id] =
                        << <<"minm", IF x.title.u THEN Str(utf8(x.title.s))
                                                  ELSE x.title>>,
                           <<"miid", x.id>>, <<"mper", x.id>>,
                           <<"mpco", 0>>, <<"mimc", 0>> >>
            /\ \A p \in DOMAIN daap_playlists :
                  (\A i \in DOMAIN p_msg'.arg : p_msg'.arg[i].id # p)
                     => daap_playlists'[p] = daap_playlists[p]]_vars

\* A notification changed one of two playlists to a unicode title, and the
\* other playlist keeps a plain title.
C21_Witness ==
    /\ p_msg.handler = "handle_playlist_changed" /\ p_outcome = "ok"
    /\ Len(p_msg.arg) = 1
    /\ p_msg.arg[1].title = Uni(<<233>>)
    /\ daap_playlists[p_msg.arg[1].id][1] = <<"minm", Str(<<195, 169>>)>>
    /\ \E p \in DOMAIN daap_playlists :
          p # p_msg.arg[1].id /\ daap_playlists[p][1] = <<"minm", Str(<<112>>)>>

\* ======================================================================
\* SharingManagerBackend: requests of the listener
\* ======================================================================
\* The catalog after handle_item_list delivered the library to an empty
\* backend: every listed item stored and translated.
CatalogLoaded ==
    /\ \E S \in SUBSET ItemIds : \E c \in [S -> Contents] :
          LET info(i) == [id |-> i, name |-> c[i].name, size |-> c[i].size,
                          duration |-> c[i].duration,
                          file_type |-> c[i].file_type,
                          video_path |-> c[i].video_path]
          IN  /\ items = [i \in S |-> Entry(info(i))]
              /\ daapitems = [i \in S |-> daap_item_fixup(i, Entry(info(i)))]
    /\ ref = items
    /\ snap = [items |-> items, daapitems |-> daapitems]
    /\ b_pc = "idle"
    /\ b_handler = "handle_item_list"
    /\ m_removed = << >>
    /\ m_added = << >>
    /\ m_changed = << >>
    /\ b_list = << >>
    /\ b_ret = "end"
    /\ b_outcome = "ok"
    /\ l_result = "none"

\* playlist_id values a client can ask for: 0 stands for a false value
\* (None, the default), the largest one names no playlist.
PlaylistArgs == 0..(MaxPlaylists + 1)

\* get_items, lines 173-176. A false playlist_id returns self.daapitems.
\* Otherwise the comprehension walks the keys of self.daapitems, integer
\* item ids: for the first key the condition evaluates 'x.id', which
\* raises AttributeError (before the unqualified name playlist_item_map is
\* looked up); with no key the condition is never evaluated and the list
\* is empty.
get_items ==
    /\ thread \in running
    /\ \E playlist_id \in PlaylistArgs :
          /\ g_arg' = playlist_id
          /\ g_ret' = IF playlist_id = 0
                         THEN [raised |-> "none", value |-> DOMAIN daapitems]
                      ELSE IF DOMAIN daapitems = {}
                         THEN [raised |-> "none", value |-> {}]
                         ELSE [raised |-> "AttributeError", value |-> {}]
    /\ UNCHANGED <<managerVars, backendVars, translateVars, relayVars,
                   testerVars>>

InitRequests ==
    /\ ManagerRunning
    /\ CatalogLoaded
    /\ db_playlists \in UNION { [S -> PlaylistRows] : S \in SUBSET PlaylistIds }
    /\ populate_playlists(db_playlists)
    /\ p_outcome = "none"
    /\ p_msg = [handler |-> "none", arg |-> << >>]
    /\ AuxIdle

NextRequests == get_items

SpecRequests == InitRequests /\ [][NextRequests]_vars

\* C22: get_items for a playlist identifier does not raise; it returns
\* nothing for an identifier that is not in playlist_item_map and, for a
\* known playlist, exactly the catalog items whose identifiers are members
\* of that playlist.
C22_ItemsOfPlaylist ==
    (g_ret.raised # "not called" /\ g_arg # 0)
       => /\ g_ret.raised = "none"
          /\ g_ret.value =
               IF g_arg \in DOMAIN playlist_item_map
                  THEN { i \in DOMAIN daapitems :
                           \E k \in DOMAIN playlist_item_map[g_arg] :
                              playlist_item_map[g_arg][k] = i }
                  ELSE {}

\* ======================================================================
\* make_item_dict and daap_item_fixup on one item, for every small input
\* ======================================================================
\* Characters of the paths tried: '/', '.', 'm' and e-acute (a byte of a
\* str path, a code point of a unicode path).
PathChars == {sep, extsep, 109, 233}

Paths ==
    { [u |-> u, s |-> cs] : u \in BOOLEAN, cs \in SeqsUpTo(PathChars, MaxPath) }

\* The ItemInfo objects tried: any of the paths, a unicode or a str name,
\* and a file_type that is 'video', 'audio' or something else.
TranslateInputs ==
    [id : ItemIds, name : {Uni(<<233>>), Str(<<97>>)}, size : {10},
     duration : {20}, file_type : {"video", "audio", "other"},
     video_path : Paths]

\* lines 190-202 for the item x: the neutral dict
make_item_dict_entry ==
    /\ t_pc = "L190"
    /\ t_entry' = Entry(t_x)
    /\ t_pc' = "L203"
    /\ UNCHANGED <<t_x, t_outs>>
    /\ UNCHANGED <<managerVars, backendVars, requestVars, relayVars, testerVars>>

\* line 203, and any later call of daap_item_fixup on the same dict
daap_item_fixup_call ==
    /\ t_pc = "L203"
    /\ Len(t_outs) < MaxCalls
    /\ t_outs' = Append(t_outs, daap_item_fixup(t_x.id, t_entry))
    /\ UNCHANGED <<t_x, t_entry, t_pc>>
    /\ UNCHANGED <<managerVars, backendVars, requestVars, relayVars, testerVars>>

InitTranslate ==
    /\ ManagerRunning
    /\ CatalogEmpty
    /\ PlaylistsEmpty
    /\ NoRequest
    /\ RelayIdle
    /\ TesterOff
    /\ t_x \in TranslateInputs
    /\ t_entry = << >>
    /\ t_outs = << >>
    /\ t_pc = "L190"

NextTranslate ==
    \/ make_item_dict_entry
    \/ daap_item_fixup_call

SpecTranslate == InitTranslate /\ [][NextTranslate]_vars

\* C23: every daap_item_fixup result carries exactly one media-kind
\* attribute, VIDEO for file_type 'video', AUDIO for 'audio' and AUDIO for
\* any other value; it carries the name and the format as UTF-8 bytes, the
\* size, the duration and the item id of the record; and two calls on the
\* same record return the same list.
C23_FixupTranslation ==
    t_pc = "L203" =>
      \A k \in DOMAIN t_outs :
        LET out == t_outs[k]
            Has(tag, v) == \E j \in DOMAIN out : out[j] = <<tag, v>>
            Bytes(v) == [u |-> FALSE, s |-> IF v.u THEN utf8(v.s) ELSE v.s]
        IN  /\ Cardinality({j \in DOMAIN out : out[j][1] = "aeMK"}) = 1
            /\ t_x.file_type = "video" => Has("aeMK", DAAP_MEDIAKIND_VIDEO)
            /\ t_x.file_type = "audio" => Has("aeMK", DAAP_MEDIAKIND_AUDIO)
            /\ t_x.file_type \notin {"video", "audio"}
                  => Has("aeMK", DAAP_MEDIAKIND_AUDIO)
            /\ Has("minm", Bytes(t_x.name))
            /\ Has("asfm", Bytes(t_entry.enclosure_format))
            /\ Has("assz", t_x.size)
            /\ Has("astm", t_x.duration)
            /\ Has("miid", t_x.id)
            /\ out = t_outs[1]

\* An item of an unrecognised kind with a unicode name and a unicode
\* extension was translated twice.
C23_Witness ==
    /\ t_pc = "L203" /\ Len(t_outs) = 2
    /\ t_x.file_type = "other" /\ t_x.name.u
    /\ t_x.video_path = Uni(<<109, 46, 233>>)
    /\ t_outs[2][2] = <<"asfm", Str(<<195, 169>>)>>

\* C24: the format stored for an item is the text after the last '.' of
\* the final path segment, and empty when that segment has no '.', for
\* every path, final segments that start or end with '.' included.
C24_ExtensionAfterLastDot ==
    t_pc = "L203" =>
      LET cs == t_x.video_path.s
          seg == SubSeq(cs, rfind(cs, sep) + 1, Len(cs))
          dot == rfind(seg, extsep)
      IN  t_entry.enclosure_format.s =
             IF dot = 0 THEN << >> ELSE SubSeq(seg, dot + 1, Len(seg))

\* C25: whenever a SharingManager operation has completed or aborted, the
\* mdns_ref attribute exists exactly when discoverable is True, the server
\* and thread attributes exist exactly when sharing is True, and the
\* operation did not abort on an attribute that does not exist.
C25_ResourcesMatchFlags ==
    pc = "idle" =>
       /\ (mdns_ref # NoAttr) <=> discoverable
       /\ (server # NoAttr) <=> sharing
       /\ (thread # NoAttr) <=> sharing
       /\ outcome # "attribute_error"

\* ======================================================================
\* dl_daemon/private/httpauth.py: the HTTP-auth relay
\* ======================================================================
\* itertools.count().next(): the value handed out and the counter after it
\* (Python integers do not overflow)
count_next_stuck(n) == [value |-> n, state |-> n]

count_next(n) == [value |-> n, state |-> n + 1]

\* dict.pop(k) for a key that is present: the value, and the dict after it
dict_pop_keep(d, k) == [value |-> d[k], d |-> d]

dict_pop(d, k) == [value |-> d[k], d |-> Del(d, k)]

\* Request ids a response can carry: every id that can have been issued
\* and one that cannot.
ResponseIds == 0..MaxRequests

AuthHeaders == {"Basic", "Digest"}

\* lines 42-46 and 49-54: both functions take an id from the shared
\* counter, store the callback under it and send a command with the id.
\* The callback of the k-th registration is called k.
register(kind) ==
    /\ registered < MaxRequests
    /\ LET n == count_next(requestIdGenerator)
       IN  /\ requestIdGenerator' = n.state
           /\ issued' = Append(issued, n.value)
           /\ overwritten' =
                (overwritten \/ n.value \in DOMAIN waitingHTTPAuthCallbacks)
           /\ waitingHTTPAuthCallbacks' =
                Put(waitingHTTPAuthCallbacks, n.value, registered + 1)
           /\ sent' = Append(sent, <<kind, n.value>>)
           /\ h_last' = [op |-> kind, id |-> n.value, header |-> "none",
                         raised |-> "none"]
    /\ registered' = registered + 1
    /\ UNCHANGED invoked
    /\ UNCHANGED <<managerVars, backendVars, requestVars, translateVars,
                   testerVars>>

\* lines 41-46
find_http_auth ==
    /\ registered < MaxRequests
    /\ register("find_http_auth")

\* lines 48-54
askForHTTPAuth ==
    /\ registered < MaxRequests
    /\ register("askForHTTPAuth")

\* lines 38-39: pop raises KeyError for an id that is not pending,
\* otherwise the popped callback is called with the header.
handle_http_auth_response ==
    /\ \E id_ \in ResponseIds : \E authHeader \in AuthHeaders :
          IF id_ \in DOMAIN waitingHTTPAuthCallbacks
             THEN LET popped == dict_pop(waitingHTTPAuthCallbacks, id_)
                  IN  /\ waitingHTTPAuthCallbacks' = popped.d
                      /\ invoked' = Append(invoked, <<popped.value, authHeader>>)
                      /\ h_last' = [op |-> "handle_http_auth_response",
                                    id |-> id_, header |-> authHeader,
                                    raised |-> "none"]
             ELSE /\ h_last' = [op |-> "handle_http_auth_response",
                                id |-> id_, header |-> authHeader,
                                raised |-> "KeyError"]
                  /\ UNCHANGED <<waitingHTTPAuthCallbacks, invoked>>
    /\ UNCHANGED <<requestIdGenerator, registered, issued, overwritten, sent>>
    /\ UNCHANGED <<managerVars, backendVars, requestVars, translateVars,
                   testerVars>>

InitRelay ==
    /\ ManagerRunning
    /\ CatalogEmpty
    /\ PlaylistsEmpty
    /\ NoRequest
    /\ TranslateOff
    /\ TesterOff
    /\ RelayIdle

NextRelay ==
    \/ find_http_auth
    \/ askForHTTPAuth
    \/ handle_http_auth_response

SpecRelay == InitRelay /\ [][NextRelay]_vars

\* C26: every request id obtained by find_http_auth or askForHTTPAuth
\* differs from all ids obtained before, no registration replaces a
\* pending callback, and every registered callback that was not yet
\* invoked is still pending under its own id.
C26_FreshRequestIds ==
    /\ \A i, j \in DOMAIN issued : i # j => issued[i] # issued[j]
    /\ ~overwritten
    /\ \A k \in 1..registered :
          \/ \E i \in DOMAIN invoked : invoked[i][1] = k
          \/ /\ issued[k] \in DOMAIN waitingHTTPAuthCallbacks
             /\ waitingHTTPAuthCallbacks[issued[k]] = k

\* Both functions registered callbacks, a response was handled before the
\* last registration, and two callbacks are pending.
C26_Witness ==
    /\ registered = MaxRequests
    /\ \E i, j \in DOMAIN sent : sent[i][1] # sent[j][1]
    /\ h_last.op = "askForHTTPAuth"
    /\ Len(invoked) = 1
    /\ Cardinality(DOMAIN waitingHTTPAuthCallbacks) = 2

\* C27: a response for a pending id invokes the callback registered for
\* that id once with the header and removes that entry alone; a response
\* for an id that is not pending raises KeyError, invokes nothing and
\* leaves the table as it was; no callback is invoked twice.
C27_ResponseInvokesOnce ==
    [][h_last'.op = "handle_http_auth_response" =>
         /\ IF h_last'.id \in DOMAIN waitingHTTPAuthCallbacks
               THEN /\ h_last'.raised = "none"
                    /\ invoked' =
                         Append(invoked,
                                <<waitingHTTPAuthCallbacks[h_last'.id],
                                  h_last'.header>>)
                    /\ DOMAIN waitingHTTPAuthCallbacks' =
                         DOMAIN waitingHTTPAuthCallbacks \ {h_last'.id}
                    /\ \A k \in DOMAIN waitingHTTPAuthCallbacks' :
                         waitingHTTPAuthCallbacks'[k] =
                            waitingHTTPAuthCallbacks[k]
               ELSE /\ h_last'.raised = "KeyError"
                    /\ invoked' = invoked
                    /\ waitingHTTPAuthCallbacks' = waitingHTTPAuthCallbacks
         /\ \A i, j \in DOMAIN invoked' :
               i # j => invoked'[i][1] # invoked'[j][1]]_vars

\* Two callbacks were invoked, a third is pending, and the last response
\* named an id that had already been answered.
C27_Witness ==
    /\ Len(invoked) = 2
    /\ Cardinality(DOMAIN waitingHTTPAuthCallbacks) = 1
    /\ h_last.op = "handle_http_auth_response"
    /\ h_last.raised = "KeyError"
    /\ \E i \in DOMAIN issued : issued[i] = h_last.id

\* ======================================================================
\* gstreamerrenderer.py: Tester, behind Renderer.can_play_file
\* ======================================================================
\* Bus messages: from the playbin or from another element; a state change
\* to READY or to PAUSED, an error, or an end of stream.
Messages ==
    [src : {"playbin", "other"},
     type : {"STATE_CHANGED_READY", "STATE_CHANGED_PAUSED", "ERROR", "EOS"}]

\* lines 84-93: what handling message m does to success and done
Decides(m) ==
    /\ m.src = "playbin"
    /\ m.type \in {"STATE_CHANGED_PAUSED", "ERROR"}

\* on_bus_message, lines 82-93. The main loop dispatches it while the
\* handler is connected; it cannot when can_play_file itself occupies the
\* main-loop thread.
on_bus_message ==
    /\ watch
    /\ ~k_main
    /\ Len(handled) < MaxMessages
    /\ \E message \in Messages :
          /\ handled' = Append(handled, message)
          /\ IF Decides(message)
                THEN /\ success' = (message.type = "STATE_CHANGED_PAUSED")
                     /\ done' = TRUE
                ELSE UNCHANGED <<success, done>>
    /\ UNCHANGED <<k_pc, k_main, watch, playbin, woke, k_ret>>
    /\ UNCHANGED <<managerVars, backendVars, requestVars, translateVars,
                   relayVars>>

\* line 78: done.wait(5) returns because the event is set
result_78_set ==
    /\ k_pc = "L78"
    /\ done
    /\ k_pc' = "L97"
    /\ woke' = handled
    /\ UNCHANGED <<k_main, success, done, watch, playbin, handled, k_ret>>
    /\ UNCHANGED <<managerVars, backendVars, requestVars, translateVars,
                   relayVars>>

\* line 78: done.wait(5) returns because five seconds passed
result_78_timeout ==
    /\ k_pc = "L78"
    /\ ~done
    /\ k_pc' = "L97"
    /\ woke' = handled
    /\ UNCHANGED <<k_main, success, done, watch, playbin, handled, k_ret>>
    /\ UNCHANGED <<managerVars, backendVars, requestVars, translateVars,
                   relayVars>>

\* line 97: self.bus.disconnect(self.watch_id)
disconnect_97 ==
    /\ k_pc = "L97"
    /\ watch' = FALSE
    /\ k_pc' = "L98"
    /\ UNCHANGED <<k_main, success, done, playbin, handled, woke, k_ret>>
    /\ UNCHANGED <<managerVars, backendVars, requestVars, translateVars,
                   relayVars>>

\* lines 98-102: self.playbin.set_state(gst.STATE_NULL), then the dels
disconnect_98 ==
    /\ k_pc = "L98"
    /\ playbin' = "NULL"
    /\ k_pc' = "L80"
    /\ UNCHANGED <<k_main, success, done, watch, handled, woke, k_ret>>
    /\ UNCHANGED <<managerVars, backendVars, requestVars, translateVars,
                   relayVars>>

\* line 80: return self.success, which can_play_file returns (line 185)
result_80 ==
    /\ k_pc = "L80"
    /\ k_ret' = IF success THEN "True" ELSE "False"
    /\ k_pc' = "returned"
    /\ UNCHANGED <<k_main, success, done, watch, playbin, handled, woke>>
    /\ UNCHANGED <<managerVars, backendVars, requestVars, translateVars,
                   relayVars>>

result ==
    \/ result_78_set
    \/ result_78_timeout
    \/ result_80

disconnect ==
    \/ disconnect_97
    \/ disconnect_98

\* Tester(filename) was constructed (lines 57-75) and result() is called
\* next (line 185), on the main-loop thread or on another one.
InitTester ==
    /\ ManagerRunning
    /\ CatalogEmpty
    /\ PlaylistsEmpty
    /\ NoRequest
    /\ TranslateOff
    /\ RelayIdle
    /\ k_pc = "L78"
    /\ k_main \in BOOLEAN
    /\ success = FALSE
    /\ done = FALSE
    /\ watch = TRUE
    /\ playbin = "PAUSED"
    /\ handled = << >>
    /\ woke = << >>
    /\ k_ret = "none"

NextTester ==
    \/ on_bus_message
    \/ result
    \/ disconnect

SpecTester == InitTester /\ [][NextTester]_vars

====
